---------------------------- MODULE Spec2Model ----------------------------
(***************************************************************************)
(* Gamma-based SPI of src/features/spi_gamma_fast.py, followed by the      *)
(* drought statistics of src/features/compute_drought_stats.py and the    *)
(* downloads of src/data/chirps_ingest.py.                                 *)
(*                                                                         *)
(* Numbers.  Precipitation values are integers and a float holds an        *)
(* integer of at most MantBits significant bits: the cumulative sums, the  *)
(* rolling difference and the total behind the moments are rounded to it.  *)
(* A missing value                                                         *)
(* is the sentinel NaN, an infinite one the sentinels Inf and NegInf.      *)
(* Means, variances, q0 and the Gamma parameters are exact rationals       *)
(* [num, den], with den = 0 for a non-finite value.  Probabilities are     *)
(* fixed-point integers in units of 1/PScale and SPI values are integers   *)
(* in hundredths, rounded down to a grid of half units: the two library    *)
(* functions scipy.special.gammainc and scipy.stats.norm.ppf are modelled  *)
(* by tabulated, monotone fixed-point versions (GammaInc, NormPpf).        *)
(* Indices are 0-based as in the code: element i of a series s is s[i+1].  *)
(***************************************************************************)
EXTENDS Integers, Sequences, FiniteSets, TLC

VARIABLES
    x,          \* the series given to _spi_1d_gamma_zero_infl
    window,     \* its window argument
    roll,       \* the rolling-sum series (local roll)
    out,        \* the output series (local out)
    m,          \* the calendar-month loop variable, 12 once the loop is over
    status,     \* per bucket: how the loop body left it
    q0s,        \* per bucket: the q0 computed for it (NaNRat when none was)
    fits,       \* per bucket: the (k, theta) _gamma_mom returned for it
    pc,         \* position in the call: "idle", "start", "loop", "done",
                \* "raised"
    samples,    \* the array given to a direct call of _gamma_mom
    fitres,     \* what that call returned
    fpc,        \* position in that call: "idle", "start", "done"
    found,      \* compute_spi_gamma_fast: whether the dataset file exists
    raw,        \* the grid of the dataset: one series per cell
    pr,         \* the grid after lines 150-151
    scales,     \* cfg["products"]["spi_timescales"]
    wi,         \* position in scales of the window being computed
    cell,       \* the cell apply_ufunc is transforming, 0 when none
    spi,        \* the transformed cells of the current window: cell -> series
    parked,     \* the locals of a call another worker has in progress
    calls,      \* the calls of the transform that returned, in order
    saved,      \* the files written: window -> grid of SPI series
    dpc,        \* position in the driver: "idle", "start", "loop", "call",
                \* "clip", "done"
    mask,       \* the boolean series given to _max_spell_length
    spell,      \* what that call returned
    mpc,        \* position in that call: "idle", "start", "done"
    frame,      \* the SPI column of the rows of one province, in time
                \* order: per year, the values of its consecutive months
    labels,     \* the class _classify_spi gives to each of these rows
    rows,       \* the rows _yearly_metrics_for_scale returns for them
    spc,        \* position in main: "idle", "start", "classified", "done"
    years,      \* download_chirps: the years asked for, in order
    files,      \* the files of the output directory: year -> the number
                \* of chunks it holds
    before,     \* the files as they were when the current run started
    yi,         \* position in years of the year of the loop
    tried,      \* the years a request was sent for in the current run
    run,        \* the number of runs started
    cpc         \* position in download_chirps: "idle", "loop", "get",
                \* "write", "done"

tvars == <<x, window, roll, out, m, status, q0s, fits, pc>>
fvars == <<samples, fitres, fpc>>
dvars == <<found, raw, pr, scales, wi, cell, spi, parked, calls, saved, dpc>>
mvars == <<mask, spell, mpc>>
svars == <<frame, labels, rows, spc>>
cvars == <<years, files, before, yi, tried, run, cpc>>
vars == <<tvars, fvars, dvars, mvars, svars, cvars>>

---------------------------------------------------------------------------
(* Bounds of the model *)
MaxVal == 20        \* the largest precipitation value of a series
MaxWindow == 3      \* the largest window
Years == 30         \* the length of the longest series, in years
MaxShort == 2       \* every series up to this length is an input
MaxPos == 25        \* valid entries of a sample given to _gamma_mom
ScenarioYears == 3  \* the length of the constant series of the scenario
MantBits == 13      \* the mantissa of a float, in bits (53 in binary64)

(* Constants of the program *)
NaN == -1000000
Inf == 1000000
NegInf == -2000000
MonthsPerYear == 12
BucketMinN == 24
GammaMinNHalved == 24 \div 2
GammaMinN == 24
PScale == 1000 * 1000

---------------------------------------------------------------------------
(* Floating-point values *)

IsFinite(v) == v # NaN /\ v # Inf /\ v # NegInf

NaNRat == [num |-> 0, den |-> 0]

RECURSIVE Gcd(_, _)
Gcd(a, b) == IF b = 0 THEN a ELSE Gcd(b, a % b)

Abs(a) == IF a < 0 THEN -a ELSE a

\* The rational n/d in lowest terms, d > 0; n/0 is not finite.
Rat(n, d) ==
    IF d = 0 THEN NaNRat
    ELSE LET g == Gcd(Abs(n), Abs(d))
             s == IF d < 0 THEN -1 ELSE 1
         IN  [num |-> s * (n \div g), den |-> s * (d \div g)]

RatIsFinite(r) == r.den # 0

\* a * b, cancelling across before multiplying
RatMul(a, b) ==
    IF ~RatIsFinite(a) \/ ~RatIsFinite(b) THEN NaNRat
    ELSE LET g1 == Gcd(Abs(a.num), b.den)
             g2 == Gcd(Abs(b.num), a.den)
         IN  [num |-> (a.num \div g1) * (b.num \div g2),
              den |-> (a.den \div g2) * (b.den \div g1)]

\* a / b; a division by zero is not finite (numpy gives inf or nan)
RatDiv(a, b) ==
    IF ~RatIsFinite(a) \/ ~RatIsFinite(b) \/ b.num = 0 THEN NaNRat
    ELSE RatMul(a, Rat(b.den, b.num))

RatLeq0(r) == RatIsFinite(r) /\ r.num <= 0
RatGt0(r) == RatIsFinite(r) /\ r.num > 0

---------------------------------------------------------------------------
(* numpy on 1-D arrays *)

\* The running sums of s[lo..hi] on top of carry
\* The floats of the model are the integers of at most MantBits significant
\* bits times a power of two: binary64 with a shorter mantissa.  An integer
\* below 2^MantBits is exact, as an integer below 2^53 is in binary64.
RECURSIVE UlpFrom(_, _)
UlpFrom(a, q) == IF a \div q < 2^MantBits THEN q ELSE UlpFrom(a, 2 * q)

\* The spacing of the floats around a >= 0
Ulp(a) == UlpFrom(a, 1)

\* The float nearest to v, ties to the even mantissa: the rounding of every
\* floating-point addition and subtraction
Fl(v) ==
    LET a == Abs(v)
        q == Ulp(a)
        lo == (a \div q) * q
        r == a - lo
        up == 2 * r > q \/ (2 * r = q /\ (a \div q) % 2 = 1)
        near == IF up THEN lo + q ELSE lo
    IN  IF v < 0 THEN -near ELSE near

RECURSIVE FloatCumSumBlock(_, _, _, _)
FloatCumSumBlock(s, lo, hi, carry) ==
    IF lo > hi THEN <<>>
    ELSE <<Fl(carry + s[lo])>>
            \o FloatCumSumBlock(s, lo + 1, hi, Fl(carry + s[lo]))

RECURSIVE FloatCumSumFrom(_, _, _)
FloatCumSumFrom(s, lo, acc) ==
    IF lo > Len(s) THEN acc
    ELSE LET hi == IF lo + 15 < Len(s) THEN lo + 15 ELSE Len(s)
             carry == IF lo = 1 THEN 0 ELSE acc[lo - 1]
         IN  FloatCumSumFrom(s, hi + 1,
                             acc \o FloatCumSumBlock(s, lo, hi, carry))

\* np.nancumsum of floats, line 69: every partial sum is rounded
FloatCumSum(s) == FloatCumSumFrom(s, 1, <<>>)

RECURSIVE CumSumBlock(_, _, _, _)
CumSumBlock(s, lo, hi, carry) ==
    IF lo > hi THEN <<>>
    ELSE <<carry + s[lo]>> \o CumSumBlock(s, lo + 1, hi, carry + s[lo])

RECURSIVE CumSumFrom(_, _, _)
CumSumFrom(s, lo, acc) ==
    IF lo > Len(s) THEN acc
    ELSE LET hi == IF lo + 15 < Len(s) THEN lo + 15 ELSE Len(s)
             carry == IF lo = 1 THEN 0 ELSE acc[lo - 1]
         IN  CumSumFrom(s, hi + 1, acc \o CumSumBlock(s, lo, hi, carry))

\* np.cumsum(s), block by block
CumSum(s) == CumSumFrom(s, 1, <<>>)

\* s[a + 1:]
SliceAfter(s, a) == SubSeq(s, a + 2, Len(s))

\* s[a:] for a >= 0
SliceFrom(s, a) == SubSeq(s, a + 1, Len(s))

\* s[:-w] for w >= 1
SliceDropLastButOne(s, w) == SubSeq(s, 1, Len(s) - w + 1)

SliceDropLast(s, w) == SubSeq(s, 1, Len(s) - w)

\* Whether numpy can subtract arrays of these lengths (broadcasting)
ShapesAgree(la, lb) == la = lb \/ la = 1 \/ lb = 1

\* a - b elementwise, an array of length 1 being broadcast
BroadcastSub(a, b) ==
    LET n == IF Len(a) = 1 THEN Len(b) ELSE Len(a)
    IN  [j \in 1..n |-> (IF Len(a) = 1 THEN a[1] ELSE a[j])
                        - (IF Len(b) = 1 THEN b[1] ELSE b[j])]


---------------------------------------------------------------------------
(* Fixed-point arithmetic for the two library functions *)

RECURSIVE ISqrtIn(_, _, _)
ISqrtIn(a, lo, hi) ==
    IF lo >= hi THEN lo
    ELSE LET mid == (lo + hi + 1) \div 2
         IN  IF mid * mid <= a THEN ISqrtIn(a, mid, hi)
             ELSE ISqrtIn(a, lo, mid - 1)

\* the integer square root of a >= 0
ISqrt(a) == ISqrtIn(a, 0, 46340)

RECURSIVE FixDivFrom(_, _, _, _)
FixDivFrom(q, r, den, digits) ==
    IF digits = 0 THEN q
    ELSE FixDivFrom(q * 10 + (r * 10) \div den, (r * 10) % den, den, digits - 1)

\* floor(num * 10^digits / den) for num >= 0, den > 0, by long division
FixDiv(num, den, digits) == FixDivFrom(num \div den, num % den, den, digits)

\* The grid of standard scores, in hundredths, and the standard normal CDF
\* on it, in units of 1/PScale.
ZGrid == <<-450, -400, -350, -300, -250, -200, -150, -100, -50, 0,
           50, 100, 150, 200, 250, 300, 350, 400, 450>>
PhiTab == <<3, 32, 233, 1350, 6210, 22750, 66807, 158655, 308538, 500000,
            691462, 841345, 933193, 977250, 993790, 998650, 999767, 999968,
            999997>>

\* norm.ppf(1e-10) = -6.36: the least quantile of a clamped probability
PpfEps == -636

RECURSIVE LastLeq(_, _, _)
LastLeq(tab, h, j) ==
    IF j > Len(tab) \/ tab[j] > h THEN j - 1 ELSE LastLeq(tab, h, j + 1)

\* np.clip(H, eps, 1.0 - eps), line 123: eps = 1e-10 is below the resolution
\* of a fixed-point probability, whose least positive value stands for it.
NoClip(h) == h

\* Lines 122-123: H = np.clip(H, eps, 1.0 - eps)
ClipProb(h) == IF h < 1 THEN 1 ELSE IF h > PScale - 1 THEN PScale - 1 ELSE h

\* norm.ppf(H), line 125, rounded down to the grid: -inf at 0, +inf at 1,
\* and norm.ppf(eps) for a probability below the grid.
NormPpf(h) ==
    IF h <= 0 THEN NegInf
    ELSE IF h >= PScale THEN Inf
    ELSE LET j == LastLeq(PhiTab, h, 1)
         IN  IF j = 0 THEN PpfEps ELSE ZGrid[j]

\* Whether the Gamma(k, theta) standard score of a value with standard
\* score tf (hundredths) under the moments of the distribution reaches grid
\* point z; uf is 1/(3 sqrt(k)) in units of 1/10000 (Wilson and Hilferty).
ReachesScore(tf, uf, z) ==
    LET zu == z * 100 - uf
        af == (uf * zu) \div 10000
    IN  IF 10000 + af <= 0 THEN TRUE
        ELSE LET pf == 10000 + af + (af * af) \div 30000
             IN  tf >= ((zu \div 10) * (pf \div 10)) \div 10000

RECURSIVE ScoreIndex(_, _, _)
ScoreIndex(tf, uf, j) ==
    IF j > Len(ZGrid) \/ ~ReachesScore(tf, uf, ZGrid[j]) THEN j - 1
    ELSE ScoreIndex(tf, uf, j + 1)

\* gammainc(k, v / theta) for v > 0, in units of 1/PScale: the CDF at v of
\* the Gamma distribution of mean k*theta and variance k*theta^2.
GammaInc(k, theta, v) ==
    LET mean == RatMul(k, theta)
        s2 == RatMul(mean, theta)
        s0 == ISqrt(FixDiv(s2.num, s2.den, 4))
        sf == IF s0 = 0 THEN 1 ELSE s0
        uf == (sf * 100 * mean.den) \div (3 * mean.num)
        tf == ((v * mean.den - mean.num) * 10000) \div (mean.den * sf)
        j == ScoreIndex(tf, uf, 1)
    IN  IF j = 0 THEN 0 ELSE PhiTab[j]

---------------------------------------------------------------------------
(* _gamma_mom, lines 31-51 *)

NaNPair == [k |-> NaNRat, theta |-> NaNRat]

RECURSIVE SeqSum(_, _)
SeqSum(s, i) == IF i > Len(s) THEN 0 ELSE s[i] + SeqSum(s, i + 1)

RECURSIVE SeqSumSq(_, _)
SeqSumSq(s, i) == IF i > Len(s) THEN 0 ELSE s[i] * s[i] + SeqSumSq(s, i + 1)

IsPositive(v) == v > 0

\* The sum of floats numpy takes the mean from, lines 42-43: every partial
\* sum is rounded
FloatTotal(xs) == IF Len(xs) = 0 THEN 0 ELSE FloatCumSum(xs)[Len(xs)]

\* Only the non-finite entries discarded
ValidFinite(shape_series) == SelectSeq(shape_series, IsFinite)

\* x = x[np.isfinite(x)]; x = x[x > 0.0]
ValidPositive(shape_series) ==
    SelectSeq(SelectSeq(shape_series, IsFinite), IsPositive)

\* The variance with the denominator n
PopulationVar(xs) ==
    LET n == Len(xs)
        total == SeqSum(xs, 1)
    IN  Rat(n * SeqSumSq(xs, 1) - total * total, n * n)

\* x.var(ddof=1), line 43: the squared deviations from the mean that numpy
\* gets from the rounded sum, over n - 1.  With t the rounded and u the exact
\* sum, sum((x - t/n)^2) = (n * sum(x^2) - 2*t*u + t^2) / n.
SampleVar(xs) ==
    LET n == Len(xs)
        t == FloatTotal(xs)
        u == SeqSum(xs, 1)
    IN  Rat(n * SeqSumSq(xs, 1) - 2 * t * u + t * t, n * (n - 1))

GammaMom(shape_series) ==
    LET xs == ValidPositive(shape_series)
        n == Len(xs)
    IN  IF n < GammaMinN THEN NaNPair
        ELSE LET total == FloatTotal(xs)
                 mean == Rat(total, n)
                 s2 == SampleVar(xs)
             IN  IF RatLeq0(mean) \/ RatLeq0(s2) THEN NaNPair
                 ELSE LET k == RatDiv(RatMul(mean, mean), s2)
                          theta == RatDiv(s2, mean)
                      IN  IF ~RatIsFinite(k) \/ ~RatIsFinite(theta)
                             \/ RatLeq0(k) \/ RatLeq0(theta)
                          THEN NaNPair
                          ELSE [k |-> k, theta |-> theta]

---------------------------------------------------------------------------
(* _spi_1d_gamma_zero_infl, lines 54-128 *)

\* A window held incomplete unless it lacks one value
IncompleteUnlessOneShort(nv, w) == nv # w - 1

\* mask_incomplete = nvalid != window, line 75
Incomplete(nv, w) == nv # w

\* Lines 66-78.  ok is FALSE when numpy raises on mismatched shapes.
RollingSum(s, w) ==
    IF w >= 1 THEN
        LET n == Len(s)
            c == FloatCumSum([i \in 1..n |-> IF IsFinite(s[i]) THEN s[i] ELSE 0])
            valid == CumSum([i \in 1..n |-> IF IsFinite(s[i]) THEN 1 ELSE 0])
            cHead == SliceFrom(c, w - 1)
            cTail == <<0>> \o SliceDropLast(c, w)
            vHead == SliceFrom(valid, w - 1)
            vTail == <<0>> \o SliceDropLast(valid, w)
            target == Len(SliceFrom(s, w - 1))
            exact == BroadcastSub(cHead, cTail)
            diff == [j \in 1..Len(exact) |-> Fl(exact[j])]
            nvalid == BroadcastSub(vHead, vTail)
            At(a, j) == IF Len(a) = 1 THEN a[1] ELSE a[j]
            ok == /\ ShapesAgree(Len(cHead), Len(cTail))
                  /\ ShapesAgree(Len(vHead), Len(vTail))
                  /\ Len(diff) = target \/ Len(diff) = 1
                  /\ Len(nvalid) = target
        IN  [ok |-> ok,
             roll |-> IF ~ok THEN <<>>
                      ELSE [i \in 1..n |->
                              IF i <= w - 1 THEN NaN
                              ELSE IF Incomplete(At(nvalid, i - (w - 1)), w) THEN NaN
                              ELSE At(diff, i - (w - 1))]]
    ELSE [ok |-> TRUE, roll |-> s]

\* The last bucket takes the indices of the month before it as well
BucketIdxLastTwoMonths(b, n) ==
    IF b < MonthsPerYear - 1
    THEN [j \in 1..((n - b + MonthsPerYear - 1) \div MonthsPerYear) |->
             b + MonthsPerYear * (j - 1)]
    ELSE [j \in 1..(2 * (n \div MonthsPerYear)
                       + (IF n % MonthsPerYear = MonthsPerYear - 1
                          THEN 1 ELSE 0)) |->
             (b - 1) + MonthsPerYear * ((j - 1) \div 2) + ((j - 1) % 2)]

\* months == m: the indices of bucket b in a series of length n, ascending
BucketIdx(b, n) ==
    [j \in 1..((n - b + MonthsPerYear - 1) \div MonthsPerYear) |->
        b + MonthsPerYear * (j - 1)]

\* xm = roll[idx]
BucketOf(r, b) == LET idx == BucketIdx(b, Len(r))
                  IN  [j \in 1..Len(idx) |-> r[idx[j] + 1]]

IsNonPositive(v) == v <= 0

IsNegative(v) == v < 0

\* The fraction of the strictly negative values
NegativeFraction(xm_hist) ==
    Rat(Len(SelectSeq(xm_hist, IsNegative)), Len(xm_hist))

\* The values <= 0 counted against the values > 0
ZeroOdds(xm_hist) ==
    Rat(Len(SelectSeq(xm_hist, IsNonPositive)),
        Len(xm_hist) - Len(SelectSeq(xm_hist, IsNonPositive)))

\* q0 = np.mean(xm_hist <= 0.0), line 96
ZeroFraction(xm_hist) ==
    Rat(Len(SelectSeq(xm_hist, IsNonPositive)), Len(xm_hist))

\* H with the Gamma part not weighted by 1 - q0
MixedCdfUnweighted(v, q0, fit) ==
    IF v > 0
    THEN (q0.num * PScale) \div q0.den + GammaInc(fit.k, fit.theta, v)
    ELSE (q0.num * PScale) \div q0.den

\* H with the upper incomplete Gamma function in place of the lower
MixedCdfUpper(v, q0, fit) ==
    IF v > 0
    THEN (q0.num * PScale
            + (q0.den - q0.num) * (PScale - GammaInc(fit.k, fit.theta, v)))
                \div q0.den
    ELSE (q0.num * PScale) \div q0.den

\* Lines 111-119 for one finite entry v of a fitted bucket: H
MixedCdf(v, q0, fit) ==
    IF v > 0
    THEN (q0.num * PScale
            + (q0.den - q0.num) * GammaInc(fit.k, fit.theta, v)) \div q0.den
    ELSE (q0.num * PScale) \div q0.den

\* A missing entry scored as a value <= 0
ScoreMissingAsZero(v, q0, fit) == NormPpf(ClipProb(MixedCdf(v, q0, fit)))

\* Lines 111-125 for one entry v of a fitted bucket: z
Score(v, q0, fit) ==
    IF ~IsFinite(v) THEN NaN ELSE NormPpf(ClipProb(MixedCdf(v, q0, fit)))

Months == 0..(MonthsPerYear - 1)

\* An array of the shape of r that keeps what the memory held
EmptyLike(r, old) ==
    [i \in 1..Len(r) |-> IF i <= Len(old) THEN old[i] ELSE NaN]

\* np.full_like(roll, np.nan), line 82: a new array of the shape of r, NaN
\* everywhere whatever the memory held
FullLikeNaN(r, old) == [i \in 1..Len(r) |-> NaN]

\* Lines 64-82
Roll ==
    /\ pc = "start"
    /\ LET r == RollingSum(x, window)
       IN  IF r.ok
           THEN /\ roll' = r.roll
                /\ out' = FullLikeNaN(r.roll, out)
                /\ pc' = "loop"
           ELSE /\ pc' = "raised"
                /\ UNCHANGED <<roll, out>>
    /\ m' = 0
    /\ UNCHANGED <<x, window, status, q0s, fits, fvars, dvars, mvars, svars, cvars>>

\* A bucket of n finite rolling sums that is one short of being skipped
InsufficientBelow(n) == n < BucketMinN - 1

\* A bucket of n finite rolling sums skipped also at the threshold itself
InsufficientUpTo(n) == n <= BucketMinN

\* Line 92: finite.sum() < 24
Insufficient(n) == n < BucketMinN

\* Lines 85-88: an empty bucket
SkipEmpty ==
    /\ pc = "loop" /\ m < MonthsPerYear
    /\ Len(BucketOf(roll, m)) = 0
    /\ status' = [status EXCEPT ![m] = "Insufficient"]
    /\ m' = m + 1
    /\ UNCHANGED <<x, window, roll, out, q0s, fits, pc, fvars, dvars, mvars, svars, cvars>>

\* Lines 85-93: fewer than 24 finite rolling sums
SkipInsufficient ==
    /\ pc = "loop" /\ m < MonthsPerYear
    /\ LET xm == BucketOf(roll, m)
       IN  /\ Len(xm) # 0
           /\ Insufficient(Len(SelectSeq(xm, IsFinite)))
    /\ status' = [status EXCEPT ![m] = "Insufficient"]
    /\ m' = m + 1
    /\ UNCHANGED <<x, window, roll, out, q0s, fits, pc, fvars, dvars, mvars, svars, cvars>>

\* Lines 85-101: no Gamma fit
SkipUnfit ==
    /\ pc = "loop" /\ m < MonthsPerYear
    /\ LET xm == BucketOf(roll, m)
           xm_hist == SelectSeq(xm, IsFinite)
           fit == GammaMom(SelectSeq(xm_hist, IsPositive))
       IN  /\ Len(xm) # 0
           /\ ~Insufficient(Len(xm_hist))
           /\ ~(RatIsFinite(fit.k) /\ RatIsFinite(fit.theta))
           /\ q0s' = [q0s EXCEPT ![m] = ZeroFraction(xm_hist)]
           /\ fits' = [fits EXCEPT ![m] = fit]
    /\ status' = [status EXCEPT ![m] = "FitFailed"]
    /\ m' = m + 1
    /\ UNCHANGED <<x, window, roll, out, pc, fvars, dvars, mvars, svars, cvars>>

\* Lines 85-126: a fitted bucket
FitBucket ==
    /\ pc = "loop" /\ m < MonthsPerYear
    /\ LET xm == BucketOf(roll, m)
           xm_hist == SelectSeq(xm, IsFinite)
           q0 == ZeroFraction(xm_hist)
           fit == GammaMom(SelectSeq(xm_hist, IsPositive))
       IN  /\ Len(xm) # 0
           /\ ~Insufficient(Len(xm_hist))
           /\ RatIsFinite(fit.k) /\ RatIsFinite(fit.theta)
           /\ q0s' = [q0s EXCEPT ![m] = q0]
           /\ fits' = [fits EXCEPT ![m] = fit]
           /\ out' = [i \in 1..Len(out) |->
                        IF (i - 1) % MonthsPerYear = m
                        THEN Score(roll[i], q0, fit) ELSE out[i]]
    /\ status' = [status EXCEPT ![m] = "Fitted"]
    /\ m' = m + 1
    /\ UNCHANGED <<x, window, roll, pc, fvars, dvars, mvars, svars, cvars>>

\* Line 128
Return ==
    /\ pc = "loop" /\ m = MonthsPerYear
    /\ pc' = "done"
    /\ UNCHANGED <<x, window, roll, out, m, status, q0s, fits, fvars, dvars, mvars, svars, cvars>>

---------------------------------------------------------------------------
(* The inputs *)

Vals == {NaN, 0, 1, MaxVal}

\* The patterns of five months, one per multiset of values (its entries in
\* non-decreasing order, NaN first): five is coprime with twelve, so every
\* calendar month meets every entry of the pattern.
Bases ==
    {b \in Vals \X Vals \X Vals \X Vals \X Vals :
        \A j \in 1..4 : b[j] <= b[j + 1]}

Repeat(base, n) == [i \in 1..n |-> base[((i - 1) % Len(base)) + 1]]

\* The patterns of four years: every second year dry or missing.
YearBases ==
    {<<a, b, a, c>> : a \in {NaN, 0}, b \in {1, MaxVal}, c \in {1, MaxVal}}

RepeatYears(base, n) ==
    [i \in 1..n |-> base[(((i - 1) \div MonthsPerYear) % Len(base)) + 1]]

\* MaxVal every month but one
Spike(v, at, n) == [i \in 1..n |-> IF i - 1 = at THEN v ELSE MaxVal]

\* Half a year short of 24 years (buckets of 24 and of 23 entries), and
\* Years full years.
LongLens == {MonthsPerYear * (BucketMinN - 1) + 6, MonthsPerYear * Years}

Spikes == {Spike(v, at, n) : v \in {NaN, 0, 1}, at \in {0, 13}, n \in LongLens}

\* A value whose cumulative sums over Years years need more than MantBits
\* bits, so that they are rounded, as those of a value such as 0.1 are from
\* the third month on in binary64
HeavyVal == 2^(MantBits - 8) + 1

\* Series whose cumulative sums are rounded
Heavy ==
    {Repeat(<<HeavyVal>>, MonthsPerYear * Years),
     Repeat(<<HeavyVal - 2, HeavyVal, HeavyVal, HeavyVal, HeavyVal + 2>>,
            MonthsPerYear * Years)}

\* The windows they are transformed with
HeavyWindows == {1, 2}

\* Years of varied months with a single missing month, the first month of
\* the second year
Gapped ==
    {[Repeat(b, MonthsPerYear * Years) EXCEPT ![MonthsPerYear + 1] = NaN] :
        b \in {<<1, 1, 1, MaxVal, MaxVal>>, <<0, 1, 1, MaxVal, MaxVal>>}}

\* The series of the scenario of the specification, three years of one
\* value, and their like over Years years
Constants ==
    {Repeat(<<c>>, MonthsPerYear * n) : c \in {1, 10}, n \in {ScenarioYears, Years}}

Inputs ==
    UNION {[1..n -> Vals] : n \in 0..MaxShort}
        \cup {Repeat(b, n) : b \in Bases, n \in LongLens}
        \cup {RepeatYears(b, MonthsPerYear * Years) : b \in YearBases}
        \cup Spikes
        \cup Gapped
        \cup Constants

Windows == 0..MaxWindow

\* The value of the series of equal sums: odd, and such that the sum of a
\* bucket of it needs more than 13 bits
EqualVal == 343

\* Every year EqualVal, then -EqualVal, then ten months of 0: the cumulative
\* sums are exact, the rolling sums of the first month of the year are all
\* equal, and their sum is rounded.
Balanced ==
    {Repeat(<<EqualVal, -EqualVal, 0, 0, 0, 0, 0, 0, 0, 0, 0, 0>>,
            MonthsPerYear * Years)}

\* The calls of the transform: a series and a window
Calls ==
    (Inputs \X Windows) \cup (Heavy \X HeavyWindows) \cup (Balanced \X {1})

NoCall ==
    /\ x = <<>>
    /\ window = 0
    /\ roll = <<>>
    /\ out = <<>>
    /\ m = 0
    /\ status = [b \in Months |-> "Uninitialized"]
    /\ q0s = [b \in Months |-> NaNRat]
    /\ fits = [b \in Months |-> NaNPair]
    /\ pc = "idle"

NoFit == samples = <<>> /\ fitres = NaNPair /\ fpc = "idle"

NoRows == <<>>

NoFiles == [y \in {} |-> 0]

\* _max_spell_length is not running
NoSpell == mask = <<>> /\ spell = 0 /\ mpc = "idle"

\* compute_drought_stats is not running
NoYearly == frame = <<>> /\ labels = <<>> /\ rows = NoRows /\ spc = "idle"

\* download_chirps is not running
NoChirps ==
    /\ years = <<>> /\ files = NoFiles /\ before = NoFiles
    /\ yi = 0 /\ tried = {} /\ run = 0
    /\ cpc = "idle"


NoSaved == [w \in {} |-> <<>>]

NoDriver ==
    /\ found = FALSE /\ raw = <<>> /\ pr = <<>> /\ scales = <<>> /\ wi = 0
    /\ cell = 0 /\ spi = <<>> /\ parked = <<>> /\ calls = <<>>
    /\ saved = NoSaved /\ dpc = "idle"

\* _spi_1d_gamma_zero_infl called on one series
Init ==
    /\ \E call \in Calls : x = call[1] /\ window = call[2]
    /\ roll = <<>>
    /\ out = <<>>
    /\ m = 0
    /\ status = [b \in Months |-> "Uninitialized"]
    /\ q0s = [b \in Months |-> NaNRat]
    /\ fits = [b \in Months |-> NaNPair]
    /\ pc = "start"
    /\ NoFit
    /\ NoDriver
    /\ NoSpell
    /\ NoYearly
    /\ NoChirps

Transform ==
    \/ Roll
    \/ SkipEmpty
    \/ SkipInsufficient
    \/ SkipUnfit
    \/ FitBucket
    \/ Return

Next == Transform

Spec == Init /\ [][Next]_vars

---------------------------------------------------------------------------
(* _gamma_mom called directly, lines 31-51 *)

Copies(v, n) == [i \in 1..n |-> v]

\* Entries the fitter has to discard
JunkSeqs == {<<>>, <<NaN, 0>>, <<Inf, -1>>, <<0, NegInf, -1, NaN>>}

\* Junk entries, then a times the value 1 and b times the value MaxVal
FitInputs ==
    {j \o Copies(1, a) \o Copies(MaxVal, b) :
        j \in JunkSeqs,
        a \in 0..MaxPos,
        b \in 0..MaxPos}

InitFit ==
    /\ NoCall
    /\ NoDriver
    /\ NoSpell
    /\ NoYearly
    /\ NoChirps
    /\ samples \in {s \in FitInputs : Len(ValidPositive(s)) <= MaxPos}
    /\ fitres = NaNPair
    /\ fpc = "start"

\* The call of _gamma_mom, lines 31-51
GammaMomCall ==
    /\ fpc = "start"
    /\ fitres' = GammaMom(samples)
    /\ fpc' = "done"
    /\ UNCHANGED <<samples, tvars, dvars, mvars, svars, cvars>>

NextFit == GammaMomCall

SpecFit == InitFit /\ [][NextFit]_vars

---------------------------------------------------------------------------
(* compute_spi_gamma_fast, lines 133-195 *)

ClipMin == -300
ClipMax == 300

\* Lines 150-151: pr.where(np.isfinite(pr), np.nan), then
\* pr.where(pr > 0, 0.0): what is not > 0, NaN included, becomes 0.0
CleanValue(v) ==
    LET w == IF IsFinite(v) THEN v ELSE NaN
    IN  IF w # NaN /\ w > 0 THEN w ELSE 0

CleanGrid(g) ==
    [c \in 1..Len(g) |-> [i \in 1..Len(g[c]) |-> CleanValue(g[c][i])]]

NoClipValue(v) == v

\* Line 178: spi.clip(min=-3, max=3); NaN stays NaN
ClipValue(v) ==
    IF v = NaN THEN NaN
    ELSE IF v < ClipMin THEN ClipMin
    ELSE IF v > ClipMax THEN ClipMax
    ELSE v

ClipGrid(g) ==
    [c \in 1..Len(g) |-> [i \in 1..Len(g[c]) |-> ClipValue(g[c][i])]]

\* The grids of the dataset: the cells of a grid share the time axis
Grids ==
    {<<Spike(1, 0, MonthsPerYear * Years)>>,
     <<Repeat(<<NaN, 0, 1, MaxVal, MaxVal>>, MonthsPerYear * Years),
       Repeat(<<1, 1, 1, MaxVal, MaxVal>>, MonthsPerYear * Years)>>,
     <<Repeat(<<-1, 1, 1, MaxVal, Inf>>, MonthsPerYear * (BucketMinN - 1) + 6)>>,
     <<RepeatYears(<<0, 1, 0, MaxVal>>, MonthsPerYear * Years)>>,
     <<Repeat(<<1>>, MonthsPerYear * Years)>>,
     <<>>}
        \cup {<<c>> : c \in [1..MaxShort -> {NaN, NegInf, 1}]}

\* The lists of windows of the configuration
ScaleLists ==
    {<<>>} \cup {<<w>> : w \in Windows}
        \cup {<<v, w>> : v \in Windows, w \in Windows}

InitDriver ==
    /\ NoCall
    /\ NoFit
    /\ found \in BOOLEAN
    /\ raw \in Grids
    /\ scales \in ScaleLists
    /\ pr = <<>>
    /\ wi = 0
    /\ cell = 0
    /\ spi = <<>>
    /\ parked = <<>>
    /\ calls = <<>>
    /\ saved = NoSaved
    /\ dpc = "start"
    /\ NoSpell
    /\ NoYearly
    /\ NoChirps

\* Lines 139-141: no dataset, nothing is computed
DatasetMissing ==
    /\ dpc = "start" /\ ~found
    /\ dpc' = "done"
    /\ UNCHANGED <<found, raw, pr, scales, wi, cell, spi, parked, calls, saved,
                   tvars, fvars, mvars, svars, cvars>>

\* Lines 143-160: open the dataset and clean it
Preprocess ==
    /\ dpc = "start" /\ found
    /\ pr' = CleanGrid(raw)
    /\ wi' = 1
    /\ dpc' = "loop"
    /\ UNCHANGED <<found, raw, scales, cell, spi, parked, calls, saved, tvars,
                   fvars, mvars, svars, cvars>>

\* Every unit given the first cell of the grid
FirstCell(grid, c) == grid[1]

\* Lines 166-175, vectorize=True: the core series of cell c
CellOf(grid, c) == grid[c]

\* The cells of the window no call has been started for
Pending ==
    (1..Len(pr)) \ (DOMAIN spi \cup {parked[j].cell : j \in DOMAIN parked})

\* The locals of the call in progress
Locals ==
    [cell |-> cell, x |-> x, window |-> window, roll |-> roll, out |-> out,
     m |-> m, status |-> status, q0s |-> q0s, fits |-> fits, pc |-> pc]

\* The call in progress is one a worker can be preempted in
Running == dpc = "call" /\ pc \in {"start", "loop"}

\* The worker takes up the call with the locals l
Restore(l) ==
    /\ cell' = l.cell
    /\ x' = l.x
    /\ window' = l.window
    /\ roll' = l.roll
    /\ out' = l.out
    /\ m' = l.m
    /\ status' = l.status
    /\ q0s' = l.q0s
    /\ fits' = l.fits
    /\ pc' = l.pc

\* Lines 157-159 and 172: the grid is chunked and the chunks are given to
\* the workers of dask.  A call is left in progress while another worker
\* starts the call of a pending cell.
Park ==
    /\ Running /\ parked = <<>> /\ Pending # {}
    /\ parked' = <<Locals>>
    /\ cell' = 0
    /\ pc' = "idle"
    /\ dpc' = "loop"
    /\ UNCHANGED <<found, raw, pr, scales, wi, spi, calls, saved,
                   x, window, roll, out, m, status, q0s, fits, fvars, mvars, svars, cvars>>

\* The two calls in progress take turns
Swap ==
    /\ Running /\ parked # <<>>
    /\ parked' = <<Locals>>
    /\ Restore(parked[1])
    /\ UNCHANGED <<found, raw, pr, scales, wi, spi, calls, saved, dpc, fvars, mvars, svars, cvars>>

\* No call is running: the call left in progress goes on
Resume ==
    /\ dpc = "loop" /\ parked # <<>>
    /\ parked' = <<>>
    /\ Restore(parked[1])
    /\ dpc' = "call"
    /\ UNCHANGED <<found, raw, pr, scales, wi, spi, calls, saved, fvars, mvars, svars, cvars>>

\* Lines 166-175: apply_ufunc (dask="parallelized") calls the transform on a
\* cell not yet transformed, in the order the scheduler chooses.  The locals
\* of the call are new: what roll, out and m hold is whatever the memory
\* held.
CallUfunc ==
    /\ dpc = "loop" /\ wi <= Len(scales)
    /\ \E c \in Pending :
          /\ cell' = c
          /\ x' = CellOf(pr, c)
    /\ window' = scales[wi]
    /\ status' = [b \in Months |-> "Uninitialized"]
    /\ q0s' = [b \in Months |-> NaNRat]
    /\ fits' = [b \in Months |-> NaNPair]
    /\ pc' = "start"
    /\ dpc' = "call"
    /\ UNCHANGED <<found, raw, pr, scales, wi, spi, parked, calls, saved, roll,
                   out, m, fvars, mvars, svars, cvars>>

\* The transform returned: its series is the cell's SPI
CellDone ==
    /\ dpc = "call" /\ pc = "done"
    /\ spi' = [c \in DOMAIN spi \cup {cell} |->
                  IF c = cell THEN out ELSE spi[c]]
    /\ calls' = Append(calls, [x |-> x, window |-> window, out |-> out])
    /\ cell' = 0
    /\ pc' = "idle"
    /\ dpc' = "loop"
    /\ UNCHANGED <<found, raw, pr, scales, wi, parked, saved,
                   x, window, roll, out, m, status, q0s, fits, fvars, mvars, svars, cvars>>

\* Lines 177-191: clip the grid and write spi_<window>.nc
ClipSave ==
    /\ dpc = "loop" /\ wi <= Len(scales) /\ DOMAIN spi = 1..Len(pr)
    /\ saved' = [w \in DOMAIN saved \cup {scales[wi]} |->
                    IF w = scales[wi] THEN ClipGrid(spi) ELSE saved[w]]
    /\ spi' = <<>>
    /\ wi' = wi + 1
    /\ UNCHANGED <<found, raw, pr, scales, cell, parked, calls, dpc, tvars,
                   fvars, mvars, svars, cvars>>

\* Line 195: every window is done
Finish ==
    /\ dpc = "loop" /\ wi > Len(scales)
    /\ dpc' = "done"
    /\ UNCHANGED <<found, raw, pr, scales, wi, cell, spi, parked, calls, saved,
                   tvars, fvars, mvars, svars, cvars>>

NextDriver ==
    \/ DatasetMissing
    \/ Preprocess
    \/ CallUfunc
    \/ Transform
    \/ CellDone
    \/ ClipSave
    \/ Finish

SpecDriver == InitDriver /\ [][NextDriver]_vars

---------------------------------------------------------------------------
(* compute_spi_gamma_fast with two workers of dask, lines 157-191 *)

\* Grids of two cells, each its own chunk: a cell whose buckets have no fit
\* beside a cell whose buckets are fitted, and two cells shorter than a year
ParGrids ==
    {<<Repeat(<<NaN, 0, 1, MaxVal, MaxVal>>, MonthsPerYear * Years),
       Repeat(<<1, 1, 1, MaxVal, MaxVal>>, MonthsPerYear * Years)>>,
     <<Repeat(<<1, NaN>>, MaxShort), Repeat(<<0, 1>>, MaxShort)>>}

\* One window, and two windows of which the second is the shorter
ParScaleLists == {<<MaxWindow>>, <<2, 1>>}

InitPar ==
    /\ NoCall
    /\ NoFit
    /\ found = TRUE
    /\ raw \in ParGrids
    /\ scales \in ParScaleLists
    /\ pr = <<>>
    /\ wi = 0
    /\ cell = 0
    /\ spi = <<>>
    /\ parked = <<>>
    /\ calls = <<>>
    /\ saved = NoSaved
    /\ dpc = "start"
    /\ NoSpell
    /\ NoYearly
    /\ NoChirps

NextPar ==
    \/ Preprocess
    \/ CallUfunc
    \/ Transform
    \/ Park
    \/ Swap
    \/ Resume
    \/ CellDone
    \/ ClipSave
    \/ Finish

SpecPar == InitPar /\ [][NextPar]_vars



---------------------------------------------------------------------------
(* The claims *)

RECURSIVE RangeSum(_, _, _)
RangeSum(s, lo, hi) == IF lo > hi THEN 0 ELSE s[lo] + RangeSum(s, lo + 1, hi)

\* The window of w values ending at index i of series s has no missing value
CompleteWindow(s, w, i) ==
    i >= w - 1 /\ \A j \in (i - w + 1)..i : IsFinite(s[j + 1])

Rolled == pc = "loop" /\ m = 0

\* C1: for a window >= 1 the rolling sum at index i is defined
\* exactly when i >= window-1 and none of the window's values is missing, and
\* it is then exactly the sum of those values: no partial sum is reported.
C1_StrictRollingSum ==
    (Rolled /\ window >= 1) =>
        /\ Len(roll) = Len(x)
        /\ \A i \in 0..(Len(x) - 1) :
              /\ IsFinite(roll[i + 1]) <=> CompleteWindow(x, window, i)
              /\ CompleteWindow(x, window, i) =>
                    roll[i + 1] = RangeSum(x, i - window + 2, i + 1)

\* C2: a window < 1 makes the call fail with an error: the call never
\* returns a series computed from such a window.
C2_InvalidWindowFailsFast == window < 1 => pc # "done"

\* The defined rolling sums of bucket b, those that are <= 0 and those > 0
Defined(b) == SelectSeq(BucketOf(roll, b), IsFinite)
Zeros(b) == SelectSeq(Defined(b), IsNonPositive)
Positives(b) == SelectSeq(Defined(b), IsPositive)

AllEqual(s) == \A i \in 1..Len(s) : s[i] = s[1]

\* The indices of bucket b
IndicesOf(b) == {i \in 0..(Len(roll) - 1) : i % MonthsPerYear = b}

AllUndefined(b) == \A i \in IndicesOf(b) : out[i + 1] = NaN

\* C3 as claimed: a bucket 0 of 30 defined rolling sums, 15 of them 0 and 15
\* positive and not all equal, is fitted with q0 = 1/2 and each of its zero
\* timesteps gets the normal quantile of q0.
C3_HalfZeroBucketFitted ==
    (/\ pc = "done" /\ window >= 1
     /\ Len(Defined(0)) = 30 /\ Len(Zeros(0)) = 15 /\ Len(Positives(0)) = 15
     /\ \A i \in 1..15 : Zeros(0)[i] = 0
     /\ ~AllEqual(Positives(0)))
    => /\ status[0] = "Fitted"
       /\ q0s[0] = Rat(1, 2)
       /\ \A i \in IndicesOf(0) :
             roll[i + 1] = 0
                => out[i + 1] = NormPpf(ClipProb(PScale \div 2))

\* C3 as amended: a bucket of n >= 24 defined rolling sums, z of them <= 0, is
\* fitted when at least 24 of them are positive and not all equal, with
\* q0 = z/n, and each timestep whose sum is <= 0 gets the normal quantile of
\* q0; with fewer than 24 positive sums (15 of 30) the fit fails and every
\* timestep of the bucket is undefined.
C3_ZeroInflatedBucket ==
    pc = "done" =>
        \A b \in Months :
            LET n == Len(Defined(b))
                z == Len(Zeros(b))
            IN  /\ (n >= 24 /\ Len(Positives(b)) >= 24
                        /\ ~AllEqual(Positives(b)))
                    => /\ status[b] = "Fitted"
                       /\ q0s[b] = Rat(z, n)
                       /\ \A i \in IndicesOf(b) :
                             (IsFinite(roll[i + 1]) /\ roll[i + 1] <= 0)
                                => out[i + 1]
                                    = NormPpf(ClipProb((z * PScale) \div n))
                /\ (n >= 24 /\ Len(Positives(b)) < 24)
                    => status[b] = "FitFailed" /\ AllUndefined(b)

\* A fitted bucket with zero sums, one of them scored
C3_Witness ==
    /\ pc = "done"
    /\ \E b \in Months :
          /\ status[b] = "Fitted" /\ Len(Zeros(b)) > 0
          /\ \E i \in IndicesOf(b) : roll[i + 1] = 0 /\ IsFinite(out[i + 1])

\* C4 as claimed: every defined value the transform returns lies in [-3, 3].
C4_TransformClips ==
    (pc = "done" /\ window >= 1) =>
        \A i \in 1..Len(out) :
            out[i] # NaN => (out[i] >= -300 /\ out[i] <= 300)

\* C4 as amended: every defined value the transform returns is finite and
\* lies between the normal quantiles of eps and of 1 - eps (about -6.36 and
\* 6.36); the transform itself does not clip to [-3, 3].
C4_TransformBoundedByEps ==
    pc = "done" =>
        \A i \in 1..Len(out) :
            out[i] # NaN
                => /\ IsFinite(out[i])
                   /\ out[i] >= PpfEps /\ out[i] <= -PpfEps

\* A returned value below -3
C4_Witness ==
    /\ pc = "done"
    /\ \E i \in 1..Len(out) : IsFinite(out[i]) /\ out[i] < -300

\* C6: a bucket with fewer than 24 defined rolling sums gets no q0 and no
\* Gamma parameters, and the output is undefined at every index of the bucket.
C6_InsufficientBucketUndefined ==
    pc = "done" =>
        \A b \in Months :
            Len(Defined(b)) < 24
                => /\ status[b] = "Insufficient"
                   /\ q0s[b] = NaNRat
                   /\ fits[b] = NaNPair
                   /\ AllUndefined(b)

\* A bucket of 23 defined sums left undefined next to a fitted bucket
C6_Witness ==
    /\ pc = "done"
    /\ \E b \in Months : Len(Defined(b)) = 23 /\ status[b] = "Insufficient"
    /\ \E b \in Months : status[b] = "Fitted"

\* C7 as claimed: the value being transformed does not count toward the 24,
\* so a bucket of 24 defined sums (23 others and the current one) is not
\* fitted and is undefined at every timestep.
C7_CurrentValueNotCounted ==
    (pc = "done" /\ window >= 1) =>
        \A b \in Months :
            Len(Defined(b)) = 24
                => status[b] = "Insufficient" /\ AllUndefined(b)

\* C7 as amended: every defined sum of the bucket counts, the one being
\* transformed included: with 23 in total no fit is attempted and every
\* timestep of the bucket is undefined, with 24 in total q0 is computed and a
\* fit is attempted.
C7_ThresholdCountsAllValues ==
    pc = "done" =>
        \A b \in Months :
            /\ Len(Defined(b)) = 23
                => status[b] = "Insufficient" /\ AllUndefined(b)
            /\ Len(Defined(b)) = 24
                => /\ status[b] \in {"Fitted", "FitFailed"}
                   /\ q0s[b] = Rat(Len(Zeros(b)), 24)

\* One series with a fitted bucket of 24 sums and a skipped bucket of 23
C7_Witness ==
    /\ pc = "done"
    /\ \E b \in Months :
          /\ Len(Defined(b)) = 24 /\ status[b] = "Fitted"
          /\ \E i \in IndicesOf(b) : IsFinite(out[i + 1])
    /\ \E b \in Months : Len(Defined(b)) = 23 /\ AllUndefined(b)

\* C10: for a window >= 1 the transform returns without error a series of the
\* length of the input, aligned with it: an entry is defined only where the
\* window ending there is complete, it is defined there when the bucket is
\* fitted, and a window longer than the series leaves every entry undefined.
C10_SameLengthAligned ==
    window >= 1 =>
        /\ pc # "raised"
        /\ pc = "done" =>
              /\ Len(out) = Len(x)
              /\ \A i \in 0..(Len(x) - 1) :
                    /\ out[i + 1] # NaN => CompleteWindow(x, window, i)
                    /\ (CompleteWindow(x, window, i)
                            /\ status[i % MonthsPerYear] = "Fitted")
                          => IsFinite(out[i + 1])
              /\ window > Len(x) => \A i \in 1..Len(out) : out[i] = NaN

\* A window longer than a non-empty series, returned
C10_Witness ==
    /\ pc = "done"
    /\ Len(x) > 0 /\ window > Len(x)
    /\ Len(out) = Len(x)

IsValidPositive(v) == IsFinite(v) /\ v > 0

\* The entries of the sample that are finite and strictly positive
Valid == SelectSeq(samples, IsValidPositive)

RECURSIVE SumSqDev(_, _, _)
\* The sum over s[i..] of (n * s[j] - total)^2, n = Len(s)
SumSqDev(s, total, i) ==
    IF i > Len(s) THEN 0
    ELSE (Len(s) * s[i] - total) * (Len(s) * s[i] - total)
            + SumSqDev(s, total, i + 1)

\* The mean and the (n-1)-denominator variance of the valid entries
ValidMean == Rat(SeqSum(Valid, 1), Len(Valid))
ValidVar ==
    Rat(SumSqDev(Valid, SeqSum(Valid, 1), 1),
        Len(Valid) * Len(Valid) * (Len(Valid) - 1))

\* C8: _gamma_mom counts only the finite, strictly positive entries: with
\* fewer than 24 of them it returns (NaN, NaN), however many other entries the
\* sample has; with exactly 24 it computes the moments, of those 24 only.
C8_DiscardsBeforeCounting ==
    fpc = "done" =>
        /\ Len(Valid) < 24 => fitres = NaNPair
        /\ Len(Valid) = 24 =>
              /\ fitres = NaNPair <=> AllEqual(Valid)
              /\ fitres # NaNPair
                    => RatMul(fitres.k, fitres.theta) = ValidMean

\* A sample with 24 valid entries among other entries, fitted
C8_Witness ==
    /\ fpc = "done"
    /\ Len(Valid) = 24 /\ Len(samples) > 24
    /\ fitres # NaNPair

C5_SavedValuesClipped ==
    /\ \A w \in DOMAIN saved :
          \A c \in 1..Len(saved[w]) :
              \A i \in 1..Len(saved[w][c]) :
                  \/ saved[w][c][i] = NaN
                  \/ saved[w][c][i] >= -300 /\ saved[w][c][i] <= 300
    /\ (dpc = "done" /\ found) =>
          \A j \in 1..Len(scales) :
              /\ scales[j] \in DOMAIN saved
              /\ Len(saved[scales[j]]) = Len(raw)
              /\ \A c \in 1..Len(raw) :
                    Len(saved[scales[j]][c]) = Len(raw[c])

\* A written value brought to the boundary next to one strictly inside
C5_Witness ==
    /\ dpc = "done"
    /\ \E w \in DOMAIN saved :
          \E c \in 1..Len(saved[w]) :
              /\ \E i \in 1..Len(saved[w][c]) : saved[w][c][i] = -300
              /\ \E i \in 1..Len(saved[w][c]) :
                    saved[w][c][i] > -300 /\ saved[w][c][i] < 300

\* C11: a timestep whose rolling sum is undefined has an undefined output
\* whatever its bucket's status, and in a fitted bucket every timestep whose
\* rolling sum is defined has a defined output.
C11_UndefinedSumOnlyLocal ==
    pc = "done" =>
        \A i \in 1..Len(roll) :
            /\ ~IsFinite(roll[i]) => out[i] = NaN
            /\ (IsFinite(roll[i])
                    /\ status[(i - 1) % MonthsPerYear] = "Fitted")
                  => IsFinite(out[i])

\* A fitted bucket with a missing month inside one window and an index
\* before the first complete window, both undefined next to defined outputs
C11_Witness ==
    /\ pc = "done" /\ window >= 2
    /\ \E b \in Months :
          /\ status[b] = "Fitted"
          /\ \E i \in IndicesOf(b) : i < window - 1 /\ out[i + 1] = NaN
          /\ \E i \in IndicesOf(b) :
                i >= window - 1 /\ ~IsFinite(roll[i + 1]) /\ out[i + 1] = NaN
          /\ \E i \in IndicesOf(b) : IsFinite(out[i + 1])

Resolved == {"Insufficient", "FitFailed", "Fitted"}

\* The loop has resolved the buckets below m and no other, and once it is
\* over each bucket has the status its defined sums call for, with numeric
\* outputs in fitted buckets only
ResolvedInOrder ==
    /\ pc \in {"loop", "done"} =>
          \A b \in Months :
              IF b < m THEN status[b] \in Resolved
              ELSE status[b] = "Uninitialized"
    /\ pc = "done" =>
          \A b \in Months :
              LET unfit == \/ Len(Positives(b)) < 24
                           \/ GammaMom(Positives(b)) = NaNPair
              IN  /\ status[b] = "Insufficient" <=> Len(Defined(b)) < 24
                  /\ status[b] = "FitFailed"
                        <=> (Len(Defined(b)) >= 24 /\ unfit)
                  /\ status[b] = "Fitted"
                        <=> (Len(Defined(b)) >= 24 /\ ~unfit)
                  /\ status[b] # "Fitted" => AllUndefined(b)

\* C12: within one call each bucket resolves once, in the order of the loop,
\* to Insufficient, FitFailed or Fitted, never changes afterwards, and only
\* a fitted bucket has numeric outputs.
C12_BucketsResolveOnce ==
    /\ []ResolvedInOrder
    /\ [][\A b \in Months :
            status[b] # "Uninitialized" => status'[b] = status[b]]_vars

\* One call that leaves buckets in each of the three states
C12_Witness ==
    /\ pc = "done"
    /\ \A st \in Resolved : \E b \in Months : status[b] = st
    /\ \E i \in 1..Len(out) : IsFinite(out[i])

\* C13: for a bucket that reaches the fit step q0 is the number of its
\* defined rolling sums that are <= 0 over the number of its defined rolling
\* sums, the undefined ones left out, and 0 <= q0 <= 1.
C13_ZeroFractionOfDefined ==
    pc = "done" =>
        \A b \in Months :
            status[b] \in {"FitFailed", "Fitted"}
                => /\ q0s[b].den > 0
                   /\ q0s[b].num * Len(Defined(b))
                        = Len(Zeros(b)) * q0s[b].den
                   /\ q0s[b].num >= 0 /\ q0s[b].num <= q0s[b].den

\* A bucket with undefined, zero and positive sums that reached the fit step
C13_Witness ==
    /\ pc = "done"
    /\ \E b \in Months :
          /\ status[b] \in {"FitFailed", "Fitted"}
          /\ Len(Defined(b)) < Len(BucketOf(roll, b))
          /\ Len(Zeros(b)) > 0 /\ Len(Positives(b)) > 0
          /\ q0s[b].num > 0 /\ q0s[b].num < q0s[b].den

\* H of the entry at index i of a fitted bucket b, in units of 1/PScale:
\* q0 for a sum <= 0, q0 + (1 - q0) G(k, x/theta) for a sum > 0
ExpectedH(b, i) ==
    LET q0 == q0s[b]
        g == IF roll[i] > 0
             THEN GammaInc(fits[b].k, fits[b].theta, roll[i]) ELSE 0
    IN  IF roll[i] <= 0 THEN (q0.num * PScale) \div q0.den
        ELSE (q0.num * PScale + (q0.den - q0.num) * g) \div q0.den

\* H brought into [eps, 1 - eps]
Clamped(h) == IF h < 1 THEN 1 ELSE IF h > PScale - 1 THEN PScale - 1 ELSE h

\* C14: in a fitted bucket each defined rolling sum x gets H = q0 when
\* x <= 0 and H = q0 + (1 - q0) G(k, x/theta) when x > 0, H is clamped into
\* [eps, 1 - eps], and the output is the normal quantile of the clamped H,
\* which is never infinite.
C14_MixedCdfClamped ==
    pc = "done" =>
        \A i \in 1..Len(roll) :
            LET b == (i - 1) % MonthsPerYear
            IN  (status[b] = "Fitted" /\ IsFinite(roll[i]))
                    => /\ out[i] = NormPpf(Clamped(ExpectedH(b, i)))
                       /\ out[i] \notin {Inf, NegInf, NaN}

\* A fitted bucket with 0 < q0 < 1, a zero sum and a positive sum scored
\* apart
C14_Witness ==
    /\ pc = "done"
    /\ \E b \in Months :
          /\ status[b] = "Fitted"
          /\ q0s[b].num > 0
          /\ \E i \in IndicesOf(b), j \in IndicesOf(b) :
                /\ roll[i + 1] = 0 /\ roll[j + 1] > 0
                /\ IsFinite(out[i + 1]) /\ out[i + 1] < out[j + 1]

\* C15: within a fitted bucket, of two timesteps with rolling sums
\* 0 < x1 < x2 the second has the larger or equal output, before the clip to
\* [-3, 3] and after it.
C15_MonotoneWithinBucket ==
    pc = "done" =>
        \A b \in Months :
            status[b] = "Fitted" =>
                \A i \in IndicesOf(b), j \in IndicesOf(b) :
                    (IsFinite(roll[i + 1]) /\ IsFinite(roll[j + 1])
                        /\ 0 < roll[i + 1] /\ roll[i + 1] < roll[j + 1])
                    => /\ out[i + 1] <= out[j + 1]
                       /\ ClipValue(out[i + 1]) <= ClipValue(out[j + 1])

\* A fitted bucket with two positive sums scored apart, the lower one
\* below -3: the clip keeps their order
C15_Witness ==
    /\ pc = "done"
    /\ \E b \in Months :
          /\ status[b] = "Fitted"
          /\ \E i \in IndicesOf(b), j \in IndicesOf(b) :
                /\ 0 < roll[i + 1] /\ roll[i + 1] < roll[j + 1]
                /\ IsFinite(out[i + 1]) /\ IsFinite(out[j + 1])
                /\ out[i + 1] < -300 /\ out[i + 1] < out[j + 1]

\* A series without gap whose values all equal one positive constant
ConstantPositive ==
    /\ Len(x) > 0
    /\ IsFinite(x[1]) /\ x[1] > 0
    /\ \A j \in 1..Len(x) : x[j] = x[1]

\* C16: for a series without gap of one positive constant and a window >= 1
\* every output is undefined; 36 months of 10 with window 3 have the rolling
\* sums undefined, undefined, 30, 30, ...
C16_ConstantSeriesUndefined ==
    (pc = "done" /\ window >= 1 /\ ConstantPositive) =>
        /\ \A i \in 1..Len(out) : out[i] = NaN
        /\ (Len(x) = 36 /\ x[1] = 10 /\ window = 3) =>
              roll = [i \in 1..36 |-> IF i <= 2 THEN NaN ELSE 30]

NoGap == \A j \in 1..Len(x) : IsFinite(x[j])

\* C17: for a series without missing value and window 1 the
\* rolling-sum series equals the input series element for element.
C17_WindowOneIsIdentity ==
    (Rolled /\ window = 1 /\ NoGap) => roll = x

Undefined == {i \in 1..Len(roll) : ~IsFinite(roll[i])}

\* C18 as claimed: for a window w >= 1 and a series without missing value
\* the rolling-sum series has exactly w-1 undefined entries, the leading
\* ones, and every entry from index w-1 on is defined.
C18_LeadingUndefinedCount ==
    (Rolled /\ window >= 1 /\ NoGap) =>
        /\ Cardinality(Undefined) = window - 1
        /\ \A i \in 1..Len(roll) : IsFinite(roll[i]) <=> i >= window

\* C18 as amended: for a window w >= 1 and a series of N values, none
\* missing, the rolling-sum series has exactly min(w-1, N) undefined entries,
\* the leading ones, and every entry from index w-1 on is defined.
C18_LeadingUndefinedUpToLength ==
    (Rolled /\ window >= 1 /\ NoGap) =>
        /\ Len(roll) = Len(x)
        /\ Cardinality(Undefined)
              = IF window - 1 < Len(x) THEN window - 1 ELSE Len(x)
        /\ \A i \in 1..Len(roll) : IsFinite(roll[i]) <=> i >= window

\* A series longer than the window: the entry before index w-1 undefined,
\* the entry at index w-1 defined
C18_Witness ==
    /\ Rolled /\ window >= 2 /\ NoGap
    /\ Len(x) > window
    /\ ~IsFinite(roll[window - 1]) /\ IsFinite(roll[window])
    /\ Cardinality(Undefined) = window - 1


\* Two calls of the log with the same series and the same window
SameUnit(i, j) ==
    /\ calls[i].x = calls[j].x
    /\ calls[i].window = calls[j].window

\* C19: two calls of the transform on the same series with the same window
\* return the same output at every index, the same entries undefined and
\* the same values where defined, whatever calls were made before them.
C19_Deterministic ==
    \A i \in DOMAIN calls : \A j \in DOMAIN calls :
        SameUnit(i, j) => calls[i].out = calls[j].out

\* The same unit was transformed twice with another series transformed in
\* between, the first time before any other call; its output has undefined
\* entries, and the output of the call in between is defined where it is not.
C19_Witness ==
    /\ Len(calls) >= 3
    /\ SameUnit(1, 3)
    /\ calls[2].x # calls[1].x
    /\ \E i \in 1..Len(calls[1].out) :
          /\ calls[1].out[i] = NaN
          /\ calls[2].out[i] # NaN


\* The bucket b of the rolling sums r, fitted on its own
AloneBucket(r, b) ==
    LET xm == BucketOf(r, b)
        xm_hist == SelectSeq(xm, IsFinite)
        fit == GammaMom(SelectSeq(xm_hist, IsPositive))
    IN  IF Len(xm) = 0 \/ Insufficient(Len(xm_hist))
        THEN [fitted |-> FALSE, q0 |-> NaNRat, fit |-> NaNPair]
        ELSE [fitted |-> RatIsFinite(fit.k) /\ RatIsFinite(fit.theta),
              q0 |-> ZeroFraction(xm_hist), fit |-> fit]

\* What the transform returns for the series s and the window w when it is
\* the only call made
AloneOut(s, w) ==
    LET r == RollingSum(s, w).roll
        f == [b \in Months |-> AloneBucket(r, b)]
    IN  [i \in 1..Len(r) |->
            LET b == (i - 1) % MonthsPerYear
            IN  IF f[b].fitted THEN Score(r[i], f[b].q0, f[b].fit) ELSE NaN]

\* C20: whatever the order of the units and however two calls in progress
\* take turns, the output recorded for a cell is the output of the transform
\* run alone on that cell's series with the window, outputs already recorded
\* do not change, and a step of a call changes neither its input series, nor
\* the grid, nor the files written, nor the locals of the other call.
C20_UnitsIsolated ==
    [][/\ \A c \in DOMAIN spi' :
            IF c \in DOMAIN spi
            THEN spi'[c] = spi[c]
            ELSE spi'[c] = AloneOut(pr[c], scales[wi])
       /\ (dpc = "call" /\ dpc' = "call" /\ cell' = cell) =>
            /\ x' = x /\ window' = window
            /\ UNCHANGED <<raw, pr, scales, spi, parked, saved>>
       /\ (dpc = "call" /\ dpc' = "loop") => UNCHANGED <<raw, pr, scales, saved>>
       /\ dpc = "call" => pc # "raised"]_vars

\* The cell with fitted buckets was started and recorded, with defined
\* values, while the call of the other cell is in progress in the middle of
\* its loop, a bucket of it already left without fit.
C20_Witness ==
    /\ parked # <<>>
    /\ parked[1].pc = "loop"
    /\ parked[1].m \in 1..(MonthsPerYear - 1)
    /\ \E b \in Months : parked[1].status[b] = "FitFailed"
    /\ \E c \in DOMAIN spi : \E i \in 1..Len(spi[c]) : spi[c][i] # NaN


\* C21: for every series and every window >= 1 the transform never raises:
\* it is at its start, in its loop over the twelve buckets, where the fitter
\* gives for the bucket at hand either no fit or two finite parameters, or
\* it has returned a series of the length of its input whose entries are
\* numbers or the undefined marker.
C21_ReturnsNormally ==
    window >= 1 =>
        /\ pc \in {"start", "loop", "done"}
        /\ pc = "loop" =>
              /\ m \in 0..MonthsPerYear
              /\ Len(out) = Len(x)
              /\ m < MonthsPerYear =>
                    LET fit == GammaMom(Positives(m))
                    IN  \/ fit = NaNPair
                        \/ RatIsFinite(fit.k) /\ RatIsFinite(fit.theta)
        /\ pc = "done" =>
              /\ m = MonthsPerYear
              /\ Len(out) = Len(x)
              /\ \A i \in 1..Len(out) : out[i] = NaN \/ IsFinite(out[i])

\* The transform returned for a window >= 2 a series all undefined: the
\* first window is incomplete and a bucket of at least 24 equal positive
\* sums, whose variance is 0, got no fit.
C21_Witness ==
    /\ pc = "done" /\ window >= 2
    /\ roll[1] = NaN
    /\ \E b \in Months :
          /\ status[b] = "FitFailed"
          /\ Len(Positives(b)) >= GammaMinN
          /\ AllEqual(Positives(b))
    /\ \A i \in 1..Len(out) : out[i] = NaN

\* C22: the preprocessing of compute_spi_gamma_fast keeps what is missing
\* apart from zero: a missing cell-month of the dataset is missing in the
\* grid given to the transform, a value <= 0 that is not missing is 0 there
\* and a positive value is unchanged.
C22_MissingStaysMissing ==
    (found /\ dpc # "start") =>
        \A c \in 1..Len(raw) :
            \A i \in 1..Len(raw[c]) :
                /\ raw[c][i] = NaN => pr[c][i] = NaN
                /\ (IsFinite(raw[c][i]) /\ raw[c][i] <= 0) => pr[c][i] = 0
                /\ (IsFinite(raw[c][i]) /\ raw[c][i] > 0) =>
                      pr[c][i] = raw[c][i]


\* The rolling sums at the indices congruent to b modulo 12, ascending
SumsOfMonth(b) ==
    [j \in 1..Cardinality(IndicesOf(b)) |->
        roll[b + MonthsPerYear * (j - 1) + 1]]

\* The scores of a bucket as a function of its own values only
BucketScores(xm) ==
    LET xm_hist == SelectSeq(xm, IsFinite)
        fit == GammaMom(SelectSeq(xm_hist, IsPositive))
        fitted == /\ ~Insufficient(Len(xm_hist))
                  /\ RatIsFinite(fit.k) /\ RatIsFinite(fit.theta)
    IN  [j \in 1..Len(xm) |->
            IF fitted THEN Score(xm[j], ZeroFraction(xm_hist), fit) ELSE NaN]

\* C23: index i belongs to bucket i mod 12 and the buckets are independent:
\* the outputs at the indices of a bucket are a function of the rolling sums
\* at those indices alone, so that series whose rolling sums agree on a
\* bucket have the same outputs on it, and a step of the loop writes no
\* output outside of its bucket.
C23_BucketsIndependent ==
    /\ [](pc = "done" =>
            \A b \in Months :
                LET z == BucketScores(SumsOfMonth(b))
                IN  \A j \in 1..Len(z) :
                        out[b + MonthsPerYear * (j - 1) + 1] = z[j])
    /\ [][pc = "loop" =>
            \A i \in 1..Len(out) :
                (i - 1) % MonthsPerYear # m => out'[i] = out[i]]_vars

\* A call that returned with a bucket fitted, its outputs defined, beside a
\* bucket with other rolling sums that is left undefined
C23_Witness ==
    /\ pc = "done"
    /\ \E b \in Months : \E c \in Months :
          /\ status[b] = "Fitted"
          /\ status[c] # "Fitted"
          /\ \E i \in IndicesOf(b) : out[i + 1] # NaN
          /\ IndicesOf(c) # {}
          /\ AllUndefined(c)


\* C30: a bucket is Fitted only if it holds at least 24 strictly positive
\* defined rolling sums that are not all equal (non-zero variance); then,
\* with n its number of defined sums, q0 <= (n - 24)/n < 1; and a bucket
\* with at least 24 defined sums of which fewer than 24 are strictly
\* positive is undefined at every timestep, the zero-valued ones included.
C30_FittedNeedsSpread ==
    \A b \in Months :
        /\ status[b] = "Fitted" =>
              LET n == Len(Defined(b))
              IN  /\ Len(Positives(b)) >= 24
                  /\ ~AllEqual(Positives(b))
                  /\ q0s[b].num * n <= (n - 24) * q0s[b].den
                  /\ q0s[b].num < q0s[b].den
        /\ (status[b] # "Uninitialized"
               /\ Len(Defined(b)) >= 24 /\ Len(Positives(b)) < 24) =>
              /\ status[b] = "FitFailed"
              /\ AllUndefined(b)


(***************************************************************************)
(* Drought statistics of src/features/compute_drought_stats.py.            *)
(***************************************************************************)

MaxMask == 6        \* the longest boolean series given to _max_spell_length

\* Line 93 and 95: mask.astype(int).values and its sum
RECURSIVE ArrSum(_, _)
ArrSum(arr, i) ==
    IF i > Len(arr) THEN 0
    ELSE (IF arr[i] THEN 1 ELSE 0) + ArrSum(arr, i + 1)

MaxOf(a, b) == IF a >= b THEN a ELSE b

KeepCurrent(v, current) == IF v THEN current + 1 ELSE current

\* Lines 101-105: the run counter after the element v
NextCurrent(v, current) == IF v THEN current + 1 ELSE 0

\* Lines 98-106: the loop over arr from its element i on
RECURSIVE SpellLoop(_, _, _, _)
SpellLoop(arr, i, current, max_run) ==
    IF i > Len(arr) THEN max_run
    ELSE LET c == NextCurrent(arr[i], current)
         IN  SpellLoop(arr, i + 1, c,
                       IF arr[i] THEN MaxOf(max_run, c) ELSE max_run)

\* Lines 85-106: _max_spell_length
MaxSpellLength(msk) ==
    IF Len(msk) = 0 THEN 0
    ELSE IF ArrSum(msk, 1) = 0 THEN 0
    ELSE SpellLoop(msk, 1, 0, 0)

\* The boolean series of the calls that are checked
Masks == UNION {[1..n -> BOOLEAN] : n \in 0..MaxMask}

\* A direct call of _max_spell_length
InitSpell ==
    /\ NoCall
    /\ NoFit
    /\ NoDriver
    /\ NoYearly
    /\ NoChirps
    /\ mask \in Masks
    /\ spell = 0
    /\ mpc = "start"

MaxSpellLengthCall ==
    /\ mpc = "start"
    /\ spell' = MaxSpellLength(mask)
    /\ mpc' = "done"
    /\ UNCHANGED <<mask, tvars, fvars, dvars, svars, cvars>>

NextSpell == MaxSpellLengthCall

SpecSpell == InitSpell /\ [][NextSpell]_vars

\* the elements a..b of s are all True
AllTrue(s, a, b) == \A k \in a..b : s[k]

\* the lengths of the runs of consecutive True elements of s
RunLengths(s) ==
    {b - a + 1 : <<a, b>> \in
        {p \in (1..Len(s)) \X (1..Len(s)) :
            p[1] <= p[2] /\ AllTrue(s, p[1], p[2])}}

\* C24: _max_spell_length returns the length of the longest run of
\* consecutive True values of its argument: 0 for an empty or all-False
\* series, the length of the series when all is True, 2 for [T,T,F,T].
C24_LongestRun ==
    mpc = "done" =>
        /\ \A r \in RunLengths(mask) : r <= spell
        /\ spell \in RunLengths(mask) \cup {0}
        /\ (RunLengths(mask) = {} => spell = 0)
        /\ (AllTrue(mask, 1, Len(mask)) => spell = Len(mask))
        /\ (mask = <<TRUE, TRUE, FALSE, TRUE>> => spell = 2)

C24_Witness ==
    /\ mpc = "done"
    /\ mask = <<TRUE, TRUE, FALSE, TRUE>>
    /\ spell = 2


MaxMonths == 3      \* the months of the longest year of a frame

\* Comparisons of floats: every comparison with NaN is False
SpiLt(a, b) == a # NaN /\ b # NaN /\ a < b
SpiLeq(a, b) == a # NaN /\ b # NaN /\ a <= b
SpiGt(a, b) == a # NaN /\ b # NaN /\ a > b

\* Line 38, in hundredths
BINS == <<NegInf, -200, -150, -100, 100, 150, 200, Inf>>

\* Lines 39-47
LABELS ==
    <<"Extremely dry", "Severely dry", "Moderately dry", "Near normal",
      "Moderately wet", "Very wet", "Extremely wet">>

\* The missing category of pd.cut
NoLabel == "NaN"

SearchSortedRight(bins, v) ==
    Cardinality({j \in 1..Len(bins) : SpiLeq(bins[j], v)})

\* Line 82, right=True: the number of edges strictly below v
SearchSortedLeft(bins, v) ==
    Cardinality({j \in 1..Len(bins) : SpiLt(bins[j], v)})

\* Line 82: pd.cut of one value; include_lowest puts the lowest edge in the
\* first interval, a value outside of every interval and NaN get no label
Cut(v) ==
    IF v = NaN THEN NoLabel
    ELSE LET ids == IF v = BINS[1] THEN 1 ELSE SearchSortedLeft(BINS, v)
         IN  IF ids = 0 \/ ids = Len(BINS) THEN NoLabel ELSE LABELS[ids]

\* Lines 80-82: _classify_spi
ClassifySpi(series) == [i \in 1..Len(series) |-> Cut(series[i])]

KeepNa(series) == series

\* Line 125: dropna(subset=[spi_col])
DropNa(series) == SelectSeq(series, LAMBDA v : v # NaN)

\* (vals < t).sum() of lines 132-133
CountLt(vals, t) == Len(SelectSeq(vals, LAMBDA v : SpiLt(v, t)))

\* (vals <= t).sum() of line 134
CountLeq(vals, t) == Len(SelectSeq(vals, LAMBDA v : SpiLeq(v, t)))

\* (vals > t).sum() of lines 135-137
CountGt(vals, t) == Len(SelectSeq(vals, LAMBDA v : SpiGt(v, t)))

\* vals.notna().sum() of line 149
CountNotNa(vals) == Len(SelectSeq(vals, LAMBDA v : v # NaN))

\* Lines 129-150: _agg of the rows vals of one province and year
Agg(vals) ==
    [mean_spi |-> Rat(SeqSum(vals, 1), Len(vals)),
     drought_months_moderate |-> CountLt(vals, -100),
     drought_months_severe |-> CountLt(vals, -150),
     drought_months_extreme |-> CountLeq(vals, -200),
     wet_months_moderate |-> CountGt(vals, 100),
     wet_months_very |-> CountGt(vals, 150),
     wet_months_extreme |-> CountGt(vals, 200),
     max_drought_spell_moderate |->
         MaxSpellLength([i \in 1..Len(vals) |-> SpiLt(vals[i], -100)]),
     n_months |-> CountNotNa(vals)]

\* Lines 125-158: _yearly_metrics_for_scale; groupby makes a group of every
\* year that has a row left, in the order of the rows
YearlyMetricsForScale(df) ==
    LET kept == [y \in 1..Len(df) |-> [year |-> y, vals |-> DropNa(df[y])]]
        groups == SelectSeq(kept, LAMBDA g : Len(g.vals) > 0)
    IN  [i \in 1..Len(groups) |->
            [year |-> groups[i].year, metrics |-> Agg(groups[i].vals)]]

\* Lines 161-171: _long_table_with_classes, one label per row
LongTableWithClasses(df) == [y \in 1..Len(df) |-> ClassifySpi(df[y])]

\* The SPI values of the frames: the edges of the classes, a value inside
\* of each class, and a missing value
SpiValues ==
    {NaN, -250, -200, -175, -150, -125, -100, 0, 100, 125, 150, 175, 200, 250}

\* One year of 1..MaxMonths months, or two years of one month
Frames ==
    {<<yr>> : yr \in UNION {[1..n -> SpiValues] : n \in 1..MaxMonths}}
        \cup {<<<<a>>, <<b>>>> : <<a, b>> \in SpiValues \X SpiValues}

\* main, once the input is read and sorted (lines 186-192)
InitStats ==
    /\ NoCall
    /\ NoFit
    /\ NoDriver
    /\ NoSpell
    /\ NoChirps
    /\ frame \in Frames
    /\ labels = <<>>
    /\ rows = NoRows
    /\ spc = "start"

\* Lines 194-198: the monthly classes
LongTable ==
    /\ spc = "start"
    /\ labels' = LongTableWithClasses(frame)
    /\ spc' = "classified"
    /\ UNCHANGED <<frame, rows, tvars, fvars, dvars, mvars, cvars>>

\* Lines 200-234: the yearly metrics
YearlyMetrics ==
    /\ spc = "classified"
    /\ rows' = YearlyMetricsForScale(frame)
    /\ spc' = "done"
    /\ UNCHANGED <<frame, labels, tvars, fvars, dvars, mvars, cvars>>

NextStats ==
    \/ LongTable
    \/ YearlyMetrics

SpecStats == InitStats /\ [][NextStats]_vars

\* month i of year y of the frame is a drought month
DroughtMonth(y, i) == SpiLt(frame[y][i], -100)

\* C25: max_drought_spell_moderate of a province-year row is the largest
\* number of consecutive calendar months of that year with SPI < -1.0; a
\* month without SPI between two drought months ends the spell.
C25_SpellOfCalendarMonths ==
    spc = "done" =>
        \A r \in 1..Len(rows) :
            LET y == rows[r].year
                runs == RunLengths([i \in 1..Len(frame[y]) |->
                                       DroughtMonth(y, i)])
                spl == rows[r].metrics.max_drought_spell_moderate
            IN  /\ \A n \in runs : n <= spl
                /\ spl \in runs \cup {0}

\* the label the stated intervals give to the value v
IntervalLabel(v) ==
    CASE v <= -200 -> "Extremely dry"
      [] -200 < v /\ v <= -150 -> "Severely dry"
      [] -150 < v /\ v <= -100 -> "Moderately dry"
      [] -100 < v /\ v <= 100 -> "Near normal"
      [] 100 < v /\ v <= 150 -> "Moderately wet"
      [] 150 < v /\ v <= 200 -> "Very wet"
      [] v > 200 -> "Extremely wet"

\* C26: _classify_spi gives every non-missing SPI value exactly one of the
\* seven labels, by right-closed intervals (Extremely dry up to -2.0, then
\* (-2.0, -1.5], (-1.5, -1.0], (-1.0, 1.0], (1.0, 1.5], (1.5, 2.0], and
\* Extremely wet above 2.0); a missing value gets no label.
C26_RightClosedClasses ==
    spc \in {"classified", "done"} =>
        /\ Len(labels) = Len(frame)
        /\ \A y \in 1..Len(frame) :
              /\ Len(labels[y]) = Len(frame[y])
              /\ \A i \in 1..Len(frame[y]) :
                    IF frame[y][i] = NaN
                    THEN labels[y][i] = NoLabel
                    ELSE labels[y][i] = IntervalLabel(frame[y][i])

C26_Witness ==
    /\ spc = "classified"
    /\ frame = <<<<-100, NaN, 200>>>>
    /\ labels = <<<<"Moderately dry", NoLabel, "Very wet">>>>

\* the months of year y that are not missing
ValidMonths(y) == {i \in 1..Len(frame[y]) : frame[y][i] # NaN}

\* C27: in every province-year row, extreme <= severe <= moderate drought
\* months, extreme <= very <= moderate wet months, the longest drought spell
\* is at most the moderate drought months, drought and wet months together
\* are at most n_months, and n_months is the number of non-missing months
\* of the group, at least 1.
C27_CountsOrdered ==
    spc = "done" =>
        \A r \in 1..Len(rows) :
            LET t == rows[r].metrics
            IN  /\ t.drought_months_extreme <= t.drought_months_severe
                /\ t.drought_months_severe <= t.drought_months_moderate
                /\ t.wet_months_extreme <= t.wet_months_very
                /\ t.wet_months_very <= t.wet_months_moderate
                /\ t.max_drought_spell_moderate <= t.drought_months_moderate
                /\ t.drought_months_moderate + t.wet_months_moderate
                       <= t.n_months
                /\ t.n_months = Cardinality(ValidMonths(rows[r].year))
                /\ t.n_months >= 1

C27_Witness ==
    /\ spc = "done"
    /\ frame = <<<<-250>>, <<NaN>>>>
    /\ Len(rows) = 1
    /\ rows[1].metrics.drought_months_extreme = 1
    /\ rows[1].metrics.n_months = 1

\* the months of year y whose label is one of ls
Labelled(y, ls) == {i \in 1..Len(frame[y]) : labels[y][i] \in ls}

\* C28: the yearly counts agree with the monthly labels: the moderate
\* drought months are those labelled Moderately, Severely or Extremely dry,
\* the severe ones those labelled Severely or Extremely dry, the extreme
\* ones those labelled Extremely dry, the edges -1.0, -1.5, -2.0 included.
C28_CountsMatchLabels ==
    spc = "done" =>
        \A r \in 1..Len(rows) :
            LET y == rows[r].year
                t == rows[r].metrics
            IN  /\ t.drought_months_moderate =
                       Cardinality(Labelled(y, {"Moderately dry",
                                                "Severely dry",
                                                "Extremely dry"}))
                /\ t.drought_months_severe =
                       Cardinality(Labelled(y, {"Severely dry",
                                                "Extremely dry"}))
                /\ t.drought_months_extreme =
                       Cardinality(Labelled(y, {"Extremely dry"}))


(***************************************************************************)
(* Downloads of src/data/chirps_ingest.py.  The file of a year is the      *)
(* number of chunks written to it; the response of the server for a year   *)
(* has Chunks chunks.                                                      *)
(***************************************************************************)

MaxYears == 3       \* the most years asked for
MaxRuns == 2        \* the runs of download_chirps on the same directory
Chunks == 2         \* the chunks of a complete file

\* Line 27: out_file.exists()
Exists(y) == y \in DOMAIN files

\* Line 33: open(out_file, "wb") creates the file, or empties it
Truncated(y) == [z \in DOMAIN files \cup {y} |-> IF z = y THEN 0 ELSE files[z]]

\* Line 35: f.write(chunk)
Written(y) == [files EXCEPT ![y] = @ + 1]

\* download_chirps is called on an empty directory (lines 16-22)
InitChirps ==
    /\ NoCall
    /\ NoFit
    /\ NoDriver
    /\ NoSpell
    /\ NoYearly
    /\ years \in {[i \in 1..n |-> i] : n \in 0..MaxYears}
    /\ files = NoFiles
    /\ before = NoFiles
    /\ yi = 1
    /\ tried = {}
    /\ run = 1
    /\ cpc = "loop"

\* Lines 27-29: the file is there, the year is skipped
SkipExisting ==
    /\ cpc = "loop"
    /\ yi <= Len(years)
    /\ Exists(years[yi])
    /\ yi' = yi + 1
    /\ UNCHANGED <<years, files, before, tried, run, cpc>>
    /\ UNCHANGED <<tvars, fvars, dvars, mvars, svars>>

\* Lines 31-32 and 37-38: the request fails or its status is an error (or
\* the file cannot be opened); the exception is logged and the loop goes on
GetFails ==
    /\ cpc = "loop"
    /\ yi <= Len(years)
    /\ ~Exists(years[yi])
    /\ tried' = tried \cup {years[yi]}
    /\ yi' = yi + 1
    /\ UNCHANGED <<years, files, before, run, cpc>>
    /\ UNCHANGED <<tvars, fvars, dvars, mvars, svars>>

\* Lines 31-33: the response arrives and the file is opened for writing
GetOk ==
    /\ cpc = "loop"
    /\ yi <= Len(years)
    /\ ~Exists(years[yi])
    /\ tried' = tried \cup {years[yi]}
    /\ files' = Truncated(years[yi])
    /\ cpc' = "write"
    /\ UNCHANGED <<years, before, yi, run>>
    /\ UNCHANGED <<tvars, fvars, dvars, mvars, svars>>

\* Lines 34-35: one more chunk is read and written
WriteChunk ==
    /\ cpc = "write"
    /\ files[years[yi]] < Chunks
    /\ files' = Written(years[yi])
    /\ UNCHANGED <<years, before, yi, tried, run, cpc>>
    /\ UNCHANGED <<tvars, fvars, dvars, mvars, svars>>

\* Lines 34-35 and 37-38: the stream breaks before the last chunk; the with
\* block closes the file, the exception is logged and the loop goes on
WriteFails ==
    /\ cpc = "write"
    /\ files[years[yi]] < Chunks
    /\ yi' = yi + 1
    /\ cpc' = "loop"
    /\ UNCHANGED <<years, files, before, tried, run>>
    /\ UNCHANGED <<tvars, fvars, dvars, mvars, svars>>

\* Lines 34-36: the stream is over, the file is closed
WriteDone ==
    /\ cpc = "write"
    /\ files[years[yi]] = Chunks
    /\ yi' = yi + 1
    /\ cpc' = "loop"
    /\ UNCHANGED <<years, files, before, tried, run>>
    /\ UNCHANGED <<tvars, fvars, dvars, mvars, svars>>

\* Line 39: the loop is over
EndRun ==
    /\ cpc = "loop"
    /\ yi > Len(years)
    /\ cpc' = "done"
    /\ UNCHANGED <<years, files, before, yi, tried, run>>
    /\ UNCHANGED <<tvars, fvars, dvars, mvars, svars>>

\* Lines 16-22: download_chirps is run again on the same directory
RunAgain ==
    /\ cpc = "done"
    /\ run < MaxRuns
    /\ run' = run + 1
    /\ before' = files
    /\ yi' = 1
    /\ tried' = {}
    /\ cpc' = "loop"
    /\ UNCHANGED <<years, files>>
    /\ UNCHANGED <<tvars, fvars, dvars, mvars, svars>>

NextChirps ==
    \/ SkipExisting
    \/ GetFails
    \/ GetOk
    \/ WriteChunk
    \/ WriteFails
    \/ WriteDone
    \/ EndRun
    \/ RunAgain

SpecChirps == InitChirps /\ [][NextChirps]_vars

\* the file of year y is being written
BeingWritten(y) == cpc = "write" /\ years[yi] = y

\* the file of year y holds a complete download
Complete(y) == Exists(y) /\ files[y] = Chunks

\* C29: over any runs of download_chirps with requests failing before or
\* during the write, a file exists only if its year was downloaded
\* completely; at the end of a run every year was attempted in that run
\* unless its file existed, so a failed year is attempted again by the next
\* run and a failure does not stop the years after it; and a file that
\* existed when the run started is unchanged.
C29_OnlyCompleteFiles ==
    /\ \A y \in DOMAIN files : BeingWritten(y) \/ Complete(y)
    /\ cpc = "done" =>
          /\ \A i \in 1..Len(years) :
                years[i] \in tried \/ Complete(years[i])
          /\ \A y \in DOMAIN before : y \notin tried /\ files[y] = before[y]

=============================================================================
